---- MODULE Spec2Model ----
(***************************************************************************)
(* Model of the Surat Event Info Assistant reply pipeline:                 *)
(*   api/main.py   create_reply        (request boundary)                  *)
(*   api/graph.py  classify_intent -> search -> synthesize (LangGraph)     *)
(*   api/search.py search_recent_surat_events (Tavily, DuckDuckGo)         *)
(*   api/llm.py    generate_email_reply                                    *)
(*   api/config.py get_settings                                            *)
(*                                                                         *)
(* Python strings are sequences of one-character strings; a few long fixed *)
(* literals of the source are kept as a single, non-blank token.  None is  *)
(* an Optional record, a dict is a function whose DOMAIN is its key set.   *)
(***************************************************************************)
EXTENDS Integers, Sequences, FiniteSets, TLC

-----------------------------------------------------------------------------
(* Python values                                                           *)

None == [isNone |-> TRUE, val |-> <<>>]

Some(v) == [isNone |-> FALSE, val |-> v]

\* truth value of an Optional[str]: None and "" are falsy
Truthy(o) == (~o.isNone) /\ o.val # <<>>

\* o or d, for an Optional[str] o and a str d
OrElse(o, d) == IF Truthy(o) THEN o.val ELSE d

Max(a, b) == IF a >= b THEN a ELSE b

Min(a, b) == IF a <= b THEN a ELSE b

\* seq[:n] for n >= 0
Take(seq, n) == SubSeq(seq, 1, Min(n, Len(seq)))

\* seq[:n] for any integer n (a negative n counts from the end)
SliceTo(seq, n) == IF n >= 0 THEN Take(seq, n) ELSE Take(seq, Max(Len(seq) + n, 0))

UpperChars ==
    <<"A", "B", "C", "D", "E", "F", "G", "H", "I", "J", "K", "L", "M",
      "N", "O", "P", "Q", "R", "S", "T", "U", "V", "W", "X", "Y", "Z">>

LowerChars ==
    <<"a", "b", "c", "d", "e", "f", "g", "h", "i", "j", "k", "l", "m",
      "n", "o", "p", "q", "r", "s", "t", "u", "v", "w", "x", "y", "z">>

LowerChar(c) ==
    IF \E i \in 1..Len(UpperChars) : UpperChars[i] = c
    THEN LowerChars[CHOOSE i \in 1..Len(UpperChars) : UpperChars[i] = c]
    ELSE c

\* str.lower()
Lower(s) == [i \in 1..Len(s) |-> LowerChar(s[i])]

Whitespace == {" ", "\n", "\t"}

\* str.strip()
Strip(s) ==
    LET keep == {i \in 1..Len(s) : s[i] \notin Whitespace}
    IN  IF keep = {} THEN <<>>
        ELSE SubSeq(s, CHOOSE i \in keep : \A j \in keep : i <= j,
                       CHOOSE i \in keep : \A j \in keep : i >= j)

\* k in t, for strings
Contains(t, k) ==
    \E i \in 1..(Len(t) - Len(k) + 1) : SubSeq(t, i, i + Len(k) - 1) = k

\* any(k in t for k in ks)
AnyIn(ks, t) == \E n \in 1..Len(ks) : Contains(t, ks[n])

RECURSIVE Join(_, _)
\* sep.join(parts)
Join(sep, parts) ==
    IF parts = <<>> THEN <<>>
    ELSE IF Len(parts) = 1 THEN Head(parts)
    ELSE Head(parts) \o sep \o Join(sep, Tail(parts))

Digits == <<"0", "1", "2", "3", "4", "5", "6", "7", "8", "9">>

DigitVal(c) == (CHOOSE i \in 1..10 : Digits[i] = c) - 1

RECURSIVE ParseNat(_, _)
ParseNat(s, acc) ==
    IF s = <<>> THEN acc ELSE ParseNat(Tail(s), 10 * acc + DigitVal(Head(s)))

\* int(s) for a well-formed decimal numeral
ParseInt(s) ==
    LET t == Strip(s)
    IN  IF Head(t) = "-" THEN 0 - ParseNat(Tail(t), 0) ELSE ParseNat(t, 0)

-----------------------------------------------------------------------------
(* api/config.py                                                           *)

DefaultOpenAIModel == <<"gpt-4o-mini">>

\* os.getenv(name, default)
GetEnv(environ, name, default) ==
    IF environ[name].isNone THEN default ELSE environ[name].val

get_settings(environ) ==
    [ openai_api_key     |-> environ["OPENAI_API_KEY"],
      openai_model       |-> GetEnv(environ, "OPENAI_MODEL", DefaultOpenAIModel),
      tavily_api_key     |-> environ["TAVILY_API_KEY"],
      search_max_results |-> ParseInt(GetEnv(environ, "SEARCH_MAX_RESULTS", <<"6">>)),
      max_reply_items    |-> ParseInt(GetEnv(environ, "MAX_REPLY_ITEMS", <<"4">>)) ]

\* the environments the process is started in
Environments ==
    [ OPENAI_API_KEY     : {None, Some(<<>>), Some(<<"sk-key">>)},
      OPENAI_MODEL       : {None},
      TAVILY_API_KEY     : {None, Some(<<>>), Some(<<"tvly-key">>)},
      SEARCH_MAX_RESULTS : {None, Some(<<"2">>)},
      MAX_REPLY_ITEMS    : {None, Some(<<"-", "1">>), Some(<<"2">>), Some(<<" ", "5">>)} ]

-----------------------------------------------------------------------------
(* api/graph.py: intent classifier and safety gate                         *)

CulturalKeywords ==
    << <<"f", "e", "s", "t", "i", "v", "a", "l">>,
       <<"g", "a", "r", "b", "a">>,
       <<"n", "a", "v", "r", "a", "t", "r", "i">>,
       <<"c", "u", "l", "t", "u", "r", "a", "l">>,
       <<"m", "u", "s", "i", "c">>,
       <<"c", "o", "n", "c", "e", "r", "t">>,
       <<"a", "r", "t">>,
       <<"e", "x", "h", "i", "b", "i", "t", "i", "o", "n">> >>

TechKeywords ==
    << <<"t", "e", "c", "h">>,
       <<"s", "t", "a", "r", "t", "u", "p">>,
       <<"h", "a", "c", "k", "a", "t", "h", "o", "n">>,
       <<"c", "o", "n", "f", "e", "r", "e", "n", "c", "e">>,
       <<"m", "e", "e", "t", "u", "p">>,
       <<"w", "o", "r", "k", "s", "h", "o", "p">> >>

SportsKeywords ==
    << <<"s", "p", "o", "r", "t", "s">>,
       <<"m", "a", "r", "a", "t", "h", "o", "n">>,
       <<"c", "r", "i", "c", "k", "e", "t">>,
       <<"f", "o", "o", "t", "b", "a", "l", "l">>,
       <<"t", "o", "u", "r", "n", "a", "m", "e", "n", "t">> >>

BusinessKeywords ==
    << <<"b", "u", "s", "i", "n", "e", "s", "s">>,
       <<"e", "x", "p", "o">>,
       <<"t", "r", "a", "d", "e", " ", "f", "a", "i", "r">>,
       <<"s", "u", "m", "m", "i", "t">>,
       <<"i", "n", "d", "u", "s", "t", "r", "y">> >>

unsafe_markers ==
    << <<"h", "o", "w", " ", "t", "o", " ", "m", "a", "k", "e", " ", "a", " ", "b", "o", "m", "b">>,
       <<"b", "u", "y", " ", "d", "r", "u", "g", "s">>,
       <<"c", "h", "i", "l", "d", " ", "s", "e", "x", "u", "a", "l">>,
       <<"e", "x", "p", "l", "i", "c", "i", "t", " ", "s", "e", "x", "u", "a", "l">>,
       <<"k", "i", "l", "l">>,
       <<"t", "e", "r", "r", "o", "r", "i", "s", "t">> >>

\* mutation: the tech keywords are looked for before the cultural ones
basic_intent_classifier_tech_first(text) ==
    LET t == Lower(text)
    IN  IF AnyIn(TechKeywords, t) THEN "tech_events"
        ELSE IF AnyIn(CulturalKeywords, t) THEN "cultural_events"
        ELSE IF AnyIn(SportsKeywords, t) THEN "sports_events"
        ELSE IF AnyIn(BusinessKeywords, t) THEN "business_events"
        ELSE "general_events"

basic_intent_classifier(text) ==
    LET t == Lower(text)
    IN  IF AnyIn(CulturalKeywords, t) THEN "cultural_events"
        ELSE IF AnyIn(TechKeywords, t) THEN "tech_events"
        ELSE IF AnyIn(SportsKeywords, t) THEN "sports_events"
        ELSE IF AnyIn(BusinessKeywords, t) THEN "business_events"
        ELSE "general_events"

\* mutation: the markers are matched without case folding
contains_unsafe_request_cased(text) == AnyIn(unsafe_markers, text)

contains_unsafe_request(text) == AnyIn(unsafe_markers, Lower(text))

RECURSIVE CollapseNewlines(_, _)
\* re.sub(r"\n{3,}", "\n\n", s): run is the number of "\n" just before s
CollapseNewlines(s, run) ==
    IF s = <<>> THEN <<>>
    ELSE IF Head(s) = "\n"
         THEN (IF run >= 2 THEN <<>> ELSE <<"\n">>) \o CollapseNewlines(Tail(s), run + 1)
         ELSE <<Head(s)>> \o CollapseNewlines(Tail(s), 0)

strip_excess_whitespace(s) == Strip(CollapseNewlines(s, 0))

-----------------------------------------------------------------------------
(* Exceptions and call results                                             *)

Exc(type, msg) == [type |-> type, msg |-> msg]

NoExc == Exc("", "")

-----------------------------------------------------------------------------
(* api/search.py                                                           *)

RECURSIVE dedupe_loop(_, _, _, _)
\* the for loop of _dedupe_sources over the not yet visited entries
dedupe_loop(rest, seen, deduped, limit) ==
    IF rest = <<>> THEN deduped
    ELSE LET s   == Head(rest)
             key == Lower(Strip(s.url))
         IN  IF key = <<>> \/ key \in seen
             THEN dedupe_loop(Tail(rest), seen, deduped, limit)
             ELSE IF Len(deduped) + 1 >= limit
                  THEN Append(deduped, s)
                  ELSE dedupe_loop(Tail(rest), seen \cup {key}, Append(deduped, s), limit)

dedupe_sources(sources, limit) == dedupe_loop(sources, {}, <<>>, limit)

SourceItem(title, url) == [title |-> title, url |-> url]

RECURSIVE tavily_items(_)
\* the loop of _search_with_tavily over resp["results"]
tavily_items(results) ==
    IF results = <<>> THEN <<>>
    ELSE LET r == Head(results)
         IN  (IF Truthy(r.url)
              THEN <<SourceItem(OrElse(r.title, OrElse(r.url, <<"Source">>)), r.url.val)>>
              ELSE <<>>) \o tavily_items(Tail(results))

RECURSIVE duckduckgo_items(_)
\* the loop of _search_with_duckduckgo over ddgs.text(...)
duckduckgo_items(results) ==
    IF results = <<>> THEN <<>>
    ELSE LET r    == Head(results)
             href == IF Truthy(r.href) THEN r.href ELSE r.url
         IN  (IF Truthy(href)
              THEN <<SourceItem(OrElse(r.title, OrElse(href, <<"Source">>)), href.val)>>
              ELSE <<>>) \o duckduckgo_items(Tail(results))

\* outcome is what the provider's client does: it raises, or answers with results
search_with_tavily(outcome) ==
    IF outcome.raises
    THEN [ok |-> FALSE, sources |-> <<>>, backend |-> "", exc |-> outcome.exc]
    ELSE [ok |-> TRUE, sources |-> tavily_items(outcome.results), backend |-> "tavily",
          exc |-> NoExc]

search_with_duckduckgo(outcome) ==
    IF outcome.raises
    THEN [ok |-> FALSE, sources |-> <<>>, backend |-> "", exc |-> outcome.exc]
    ELSE [ok |-> TRUE, sources |-> duckduckgo_items(outcome.results),
          backend |-> "duckduckgo", exc |-> NoExc]

\* mutation: the primary provider is attempted without a credential
tavily_enabled_always(settings) == TRUE

\* search.py line 70: if settings.tavily_api_key
tavily_enabled(settings) == Truthy(settings.tavily_api_key)

\* mutation: an empty answer of the primary provider is returned as it is
tavily_accepted_empty(sources) == TRUE

\* search.py line 74: if sources
tavily_accepted(sources) == sources # <<>>

SearchUnavailable ==
    Exc("RuntimeError",
        "Web search is currently unavailable. Please try again later, or configure TAVILY_API_KEY.")

\* mutation: the secondary provider's exception is re-raised as it is
search_unavailable_raw(e) == e

\* search.py lines 83-87: raise RuntimeError(...) from e
search_unavailable(e) == SearchUnavailable

CallEntry(provider, query, limit, outcome) ==
    [provider |-> provider, query |-> query, max_results |-> limit, outcome |-> outcome]

\* calls is the list of provider calls made, in order
search_recent_surat_events(query, environ, tavilyOutcome, ddgOutcome) ==
    LET settings   == get_settings(environ)
        limit      == settings.search_max_results
        augmented  == Strip(query) \o <<" Surat events recent 2025 2024">>
        t          == search_with_tavily(tavilyOutcome)
        tSources   == dedupe_sources(t.sources, limit)
        tCall      == IF tavily_enabled(settings)
                      THEN <<CallEntry("tavily", augmented, limit, tavilyOutcome)>>
                      ELSE <<>>
        d          == search_with_duckduckgo(ddgOutcome)
        dCall      == <<CallEntry("duckduckgo", augmented, limit, ddgOutcome)>>
    IN  IF tavily_enabled(settings) /\ t.ok /\ tavily_accepted(tSources)
        THEN [ok |-> TRUE, sources |-> tSources, backend |-> t.backend, exc |-> NoExc,
              calls |-> tCall]
        ELSE IF d.ok
        THEN [ok |-> TRUE, sources |-> dedupe_sources(d.sources, limit),
              backend |-> d.backend, exc |-> NoExc, calls |-> tCall \o dCall]
        ELSE [ok |-> FALSE, sources |-> <<>>, backend |-> "",
              exc |-> search_unavailable(d.exc), calls |-> tCall \o dCall]

-----------------------------------------------------------------------------
(* api/llm.py                                                              *)

\* str(i) for 0 <= i <= 99
IntStr(i) == IF i < 10 THEN <<Digits[i + 1]>> ELSE <<Digits[(i \div 10) + 1], Digits[(i % 10) + 1]>>

format_sources_for_prompt(sources) ==
    Join(<<"\n">>, [i \in 1..Len(sources) |->
        IntStr(i) \o <<".", " ">> \o sources[i].title \o <<" ", "-", " ">> \o sources[i].url])

LLMConfigurationError ==
    Exc("LLMConfigurationError",
        "OPENAI_API_KEY is not set. Configure OPENAI_API_KEY (and optionally OPENAI_MODEL) to enable replies.")

EmptyResponseError == Exc("RuntimeError", "LLM returned an empty response.")

user_prompt(args) ==
    LET src_block == format_sources_for_prompt(args.sources)
    IN  <<"Sender: ">> \o OrElse(args.sender_email, <<"unknown">>) \o <<"\n">>
        \o <<"Subject: ">> \o OrElse(args.subject, <<>>) \o <<"\n">>
        \o <<"Detected intent: ", args.intent_label, "\n", "\n">>
        \o <<"User email body:", "\n">> \o args.body \o <<"\n", "\n">>
        \o <<"Sources:", "\n">>
        \o (IF src_block # <<>> THEN src_block ELSE <<"(no sources found)">>)
        \o <<"\n", "\n", "Now draft the reply. Format: ...">>

\* llm.py line 41: if not settings.openai_api_key
llm_unconfigured(settings) == ~Truthy(settings.openai_api_key)

\* outcome is what the chat-completions backend does: it raises, or answers with a content
\* backend is the list of requests sent to the backend, each with what the backend did
generate_email_reply(args, environ, outcome) ==
    LET settings == get_settings(environ)
        request  == [model |-> settings.openai_model, user |-> user_prompt(args),
                     outcome |-> outcome]
        text     == Strip(OrElse(outcome.content, <<>>))
    IN  IF llm_unconfigured(settings)
        THEN [ok |-> FALSE, text |-> <<>>, model |-> <<>>, exc |-> LLMConfigurationError,
              backend |-> <<>>]
        ELSE IF outcome.raises
        THEN [ok |-> FALSE, text |-> <<>>, model |-> <<>>, exc |-> outcome.exc,
              backend |-> <<request>>]
        ELSE IF text = <<>>
        THEN [ok |-> FALSE, text |-> <<>>, model |-> <<>>, exc |-> EmptyResponseError,
              backend |-> <<request>>]
        ELSE [ok |-> TRUE, text |-> text, model |-> settings.openai_model, exc |-> NoExc,
              backend |-> <<request>>]

-----------------------------------------------------------------------------
(* api/graph.py: the nodes                                                 *)

\* state.get(key, default)
Get(state, key, default) == IF key \in DOMAIN state THEN state[key] ELSE default

\* the orchestrator merges a node's patch into the running state
Merge_replace(state, patch) == patch

Merge(state, patch) == patch @@ state

Signature == <<"\n", "\n", "Regards,", "\n", "Surat Event Info Assistant">>

RefusalText ==
    <<"Hi,", "\n", "\n",
      "Sorry, I can't help with that request. If you're looking for information about public events in Surat, ",
      "tell me what kind of events you're interested in (culture, tech, business, sports) and your preferred dates.">>
    \o Signature

ApologyText ==
    <<"Hi,", "\n", "\n",
      "I couldn't find enough reliable recent information about events in Surat right now. ",
      "If you share the type of event (culture/tech/business/sports) and a date range (e.g., this weekend), ",
      "I can try again.">>
    \o Signature

\* mutation: classify drafts a reply for a safe request as well
node_classify_intent_drafts(state) ==
    LET body == Get(state, "body", <<>>)
    IN  IF contains_unsafe_request(body)
        THEN [ intent         |-> "unsafe_request",
               reply_text     |-> RefusalText,
               sources        |-> <<>>,
               model          |-> <<"none">>,
               search_backend |-> "none" ]
        ELSE [ intent |-> basic_intent_classifier(body), reply_text |-> ApologyText ]

node_classify_intent(state) ==
    LET body == Get(state, "body", <<>>)
    IN  IF contains_unsafe_request(body)
        THEN [ intent         |-> "unsafe_request",
               reply_text     |-> RefusalText,
               sources        |-> <<>>,
               model          |-> <<"none">>,
               search_backend |-> "none" ]
        ELSE [ intent |-> basic_intent_classifier(body) ]

IntentQuery(intent) ==
    CASE intent = "cultural_events" -> <<"cultural events in Surat">>
      [] intent = "tech_events"     -> <<"tech meetups workshops in Surat">>
      [] intent = "sports_events"   -> <<"sports events tournaments in Surat">>
      [] intent = "business_events" -> <<"expos trade fairs business events in Surat">>
      [] OTHER                      -> <<"recent events in Surat">>

node_search(state, environ, tavilyOutcome, ddgOutcome) ==
    LET intent == Get(state, "intent", "general_events")
        body   == Get(state, "body", <<>>)
        query  == IntentQuery(intent) \o <<".", " ", "User request: ">> \o Take(body, 280)
        r      == search_recent_surat_events(query, environ, tavilyOutcome, ddgOutcome)
    IN  [ ok     |-> r.ok,
          patch  |-> [sources |-> r.sources, search_backend |-> r.backend],
          exc    |-> r.exc,
          lookup |-> r ]

\* mutation: the refusal set by classify is not kept
keeps_refusal_never(state) == FALSE

\* graph.py line 107
keeps_refusal(state) ==
    /\ Get(state, "intent", "") = "unsafe_request"
    /\ Get(state, "reply_text", <<>>) # <<>>

\* mutation: the generator is called without sources
not_enough_sources_never(sources) == FALSE

\* mutation: fewer than 4 sources count as not enough
not_enough_sources_below4(sources) == Len(sources) < 4

\* graph.py line 116
not_enough_sources(sources) == Len(sources) < 1

\* mutation: the generator always gets four sources
sources_for_llm_four(settings, sources) == Take(sources, 4)

\* mutation: min in place of max
sources_for_llm_min(settings, sources) == Take(sources, Min(settings.max_reply_items, 4))

\* graph.py line 127
sources_for_llm(settings, sources) == Take(sources, Max(settings.max_reply_items, 4))

\* mutation: the listing shows the titles only
degraded_reply_titles(sources) ==
    <<"Hi,", "\n", "\n",
      "I found some sources, but the reply generator is not configured on this server yet. ",
      "An administrator needs to set OPENAI_API_KEY.", "\n", "\n",
      "Sources I found:", "\n">>
    \o Join(<<"\n">>, [i \in 1..Len(Take(sources, 4)) |-> <<"-", " ">> \o sources[i].title])
    \o Signature

\* graph.py lines 141-148
degraded_reply(sources) ==
    <<"Hi,", "\n", "\n",
      "I found some sources, but the reply generator is not configured on this server yet. ",
      "An administrator needs to set OPENAI_API_KEY.", "\n", "\n",
      "Sources I found:", "\n">>
    \o Join(<<"\n">>, [i \in 1..Len(Take(sources, 4)) |->
            <<"-", " ">> \o sources[i].title \o <<":", " ">> \o sources[i].url])
    \o Signature

\* mutation: every failure of the generator is degraded to the source listing
is_configuration_error_any(e) == TRUE

\* graph.py line 138: except LLMConfigurationError
is_configuration_error(e) == e.type = "LLMConfigurationError"

\* llm is the list of calls of generate_email_reply, backend the requests it sent
node_synthesize(state, environ, outcome) ==
    LET settings == get_settings(environ)
        sources  == Get(state, "sources", <<>>)
        args     == [ body         |-> Get(state, "body", <<>>),
                      subject      |-> Get(state, "subject", None),
                      sender_email |-> Get(state, "sender_email", None),
                      sources      |-> sources_for_llm(settings, sources),
                      intent_label |-> Get(state, "intent", "general_events") ]
        g        == generate_email_reply(args, environ, outcome)
    IN  IF keeps_refusal(state)
        THEN [ ok |-> TRUE, exc |-> NoExc, llm |-> <<>>, backend |-> <<>>,
               patch |-> [reply_text |-> state["reply_text"],
                          model      |-> Get(state, "model", <<"none">>)] ]
        ELSE IF not_enough_sources(sources)
        THEN [ ok |-> TRUE, exc |-> NoExc, llm |-> <<>>, backend |-> <<>>,
               patch |-> [reply_text |-> ApologyText, model |-> <<"none">>] ]
        ELSE IF g.ok
        THEN [ ok |-> TRUE, exc |-> NoExc, llm |-> <<args>>, backend |-> g.backend,
               patch |-> [reply_text |-> strip_excess_whitespace(g.text), model |-> g.model] ]
        ELSE IF is_configuration_error(g.exc)
        THEN [ ok |-> TRUE, exc |-> NoExc, llm |-> <<args>>, backend |-> g.backend,
               patch |-> [reply_text |-> degraded_reply(sources), model |-> <<"none">>] ]
        ELSE [ ok |-> FALSE, exc |-> g.exc, llm |-> <<args>>, backend |-> g.backend,
               patch |-> <<>> ]

\* mutation: a search without sources is run again
edge_after_search_retry(state) ==
    IF Get(state, "sources", <<>>) = <<>> THEN "search" ELSE "synthesize"

\* graph.py line 176: g.add_edge("search", "synthesize")
edge_after_search(state) == "synthesize"

\* mutation: synthesize hands a reply without sources back to search
edge_after_synthesize_search(state) ==
    IF Get(state, "sources", <<>>) = <<>> /\ Get(state, "intent", "") # "unsafe_request"
    THEN "search" ELSE "END"

\* graph.py line 177: g.add_edge("synthesize", END)
edge_after_synthesize(state) == "END"

\* mutation: every request is routed to search
route_after_classify_search(state) == "search"

\* graph.py lines 166-169
route_after_classify(state) ==
    IF Get(state, "intent", "") = "unsafe_request" THEN "synthesize" ELSE "search"

-----------------------------------------------------------------------------
(* Inputs: requests, provider answers, backend answers                     *)

\* the longest answer in which every combination of the short results occurs
MaxShortLen == 2

\* the longest prefix of Feed a provider answers with
MaxFeedLen == 8

RawResult(title, url, href) == [title |-> title, url |-> url, href |-> href]

ShortItems ==
    { RawResult(Some(<<"Garba Night">>), Some(<<"a">>), None),
      RawResult(None, Some(<<" ", "A">>), None),
      RawResult(Some(<<"Blank">>), Some(<<" ">>), None) }

Feed ==
    << RawResult(Some(<<"Title 1">>), Some(<<"b">>), None),
       RawResult(Some(<<"Title 2">>), None, Some(<<"c">>)),
       RawResult(Some(<<"Title 3">>), Some(<<"d">>), Some(<<>>)),
       RawResult(None, Some(<<" ", "B", " ">>), None),
       RawResult(Some(<<"Title 5">>), Some(<<"e">>), None),
       RawResult(Some(<<"Title 6">>), Some(<<"f">>), None),
       RawResult(Some(<<"Title 7">>), Some(<<"g">>), None),
       RawResult(Some(<<"Title 8">>), Some(<<"h">>), None),
       RawResult(Some(<<"Title 9">>), Some(<<"i">>), None),
       RawResult(Some(<<"Title 10">>), Some(<<"j">>), None) >>

RawResults ==
    UNION {[1..n -> ShortItems] : n \in 0..MaxShortLen}
    \cup {SubSeq(Feed, 1, n) : n \in (MaxShortLen + 1)..Min(MaxFeedLen, Len(Feed))}

ProviderOutcomes(e) ==
    {[raises |-> TRUE, exc |-> e, results |-> <<>>]}
    \cup {[raises |-> FALSE, exc |-> NoExc, results |-> r] : r \in RawResults}

TavilyError == Exc("TavilyError", "tavily request failed")

DuckDuckGoError == Exc("DuckDuckGoSearchException", "ratelimit")

TavilyOutcomes == ProviderOutcomes(TavilyError)

DuckDuckGoOutcomes == ProviderOutcomes(DuckDuckGoError)

LLMContents ==
    { None, Some(<<>>), Some(<<" ", "\n">>),
      Some(<<"\n", "Hello,", "\n", "\n", "\n", "\n", "- Garba Night: a", "\n", "\n", "Bye", " ">>) }

LLMErrors == {Exc("APITimeoutError", "Request timed out."), Exc("APIConnectionError", "")}

LLMOutcomes ==
    {[raises |-> TRUE, exc |-> e, content |-> None] : e \in LLMErrors}
    \cup {[raises |-> FALSE, exc |-> NoExc, content |-> c] : c \in LLMContents}

Bodies ==
    { <<>>,
      <<" ", " ">>,
      <<" ", "h", "i", " ">>,
      <<"T", "e", "c", "h", " ", "p", "a", "r", "t", "y">>,
      <<"b", "u", "y", " ", "D", "r", "u", "g", "s">>,
      <<"s", "K", "i", "l", "l", "\n">> }

Payloads == [body : Bodies, subject : {None}, sender_email : {None}]

-----------------------------------------------------------------------------
(* State                                                                   *)

VARIABLES
    environ,       \* os.environ, read by get_settings()
    settings,      \* main.py line 14: the settings read when the module is loaded
    payload,       \* the ReplyRequest being served
    pc,            \* where the request is
    state,         \* the GraphState of the run
    trace,         \* the nodes that ran, in order
    lookup,        \* what search_recent_surat_events returned or raised
    searchCalls,   \* the calls of the search providers, in order
    llmCalls,      \* the calls of generate_email_reply, in order
    backendCalls,  \* the requests sent to the chat-completions backend
    error,         \* the exception that left the graph
    response,      \* the HTTP response
    patches,       \* the patches the orchestrator merged, in order
    fncall,        \* one call of a function of the program on its own: arguments and result
    reqs           \* the requests served side by side

vars == <<environ, settings, payload, pc, state, trace, lookup, searchCalls, llmCalls,
          backendCalls, error, response, patches, fncall, reqs>>

\* what the steps of the single request leave alone
others == <<fncall, reqs>>

EmptyDict == <<>>

NoLookup ==
    [called |-> FALSE, ok |-> FALSE, sources |-> <<>>, backend |-> "", exc |-> NoExc]

NoResponse ==
    [status |-> 0, error |-> "", message |-> "", reply_text |-> <<>>, sources |-> <<>>,
     model |-> <<>>]

ErrorResponse(status, err, message) ==
    [status |-> status, error |-> err, message |-> message, reply_text |-> <<>>,
     sources |-> <<>>, model |-> <<>>]

ReplyResponse(reply_text, sources, model) ==
    [status |-> 200, error |-> "", message |-> "", reply_text |-> reply_text,
     sources |-> sources, model |-> model]

TryAgainText ==
    <<"Hi,", "\n", "\n",
      "Sorry - I couldn't generate a reply right now. Please try again with more details.",
      "\n", "\n", "Regards,", "\n", "Surat Event Info Assistant">>

\* mutation: only the empty body is rejected
body_is_blank_empty(body) == body = <<>>

\* main.py line 143: not payload.body or not payload.body.strip()
body_is_blank(body) == body = <<>> \/ Strip(body) = <<>>

\* main.py lines 152-156: the GraphState a request starts with
initial_state(request) ==
    [ body         |-> Strip(request.body),
      subject      |-> request.subject,
      sender_email |-> request.sender_email ]

\* mutation: the reply text of the result is returned as it is
reply_response_verbatim(result, startup) ==
    ReplyResponse(Strip(Get(result, "reply_text", <<>>)),
                  SliceTo(Get(result, "sources", <<>>), startup.max_reply_items),
                  IF Get(result, "model", <<>>) # <<>> THEN result["model"] ELSE <<"none">>)

\* main.py lines 160-175: the response built from the result of the graph
reply_response(result, startup) ==
    LET sources    == Get(result, "sources", <<>>)
        reply_text == Strip(Get(result, "reply_text", <<>>))
        model      == IF Get(result, "model", <<>>) # <<>> THEN result["model"] ELSE <<"none">>
    IN  ReplyResponse(IF reply_text = <<>> THEN TryAgainText ELSE reply_text,
                      SliceTo(sources, startup.max_reply_items), model)

\* mutation: the message of the exception is reported even when it is empty
pipeline_error_message_raw(e) == e.msg

\* main.py line 180: str(e) if str(e) else "Reply pipeline failed."
pipeline_error_message(e) == IF e.msg # "" THEN e.msg ELSE "Reply pipeline failed."

\* one merged patch: the node, its patch, the state before and after
PatchEntry(node, patch, before) ==
    [node |-> node, patch |-> patch, before |-> before, after |-> Merge(before, patch)]

NoCall ==
    [fn |-> "none", done |-> FALSE, sources |-> <<>>, limit |-> 0, text |-> <<>>,
     result |-> EmptyDict, startup_items |-> 0, out |-> <<>>]

NoRequests == <<>>

Init ==
    /\ patches = <<>>
    /\ fncall = NoCall
    /\ reqs = NoRequests
    /\ environ \in Environments
    /\ settings = get_settings(environ)
    /\ payload \in Payloads
    /\ pc = "received"
    /\ state = EmptyDict
    /\ trace = <<>>
    /\ lookup = NoLookup
    /\ searchCalls = <<>>
    /\ llmCalls = <<>>
    /\ backendCalls = <<>>
    /\ error = NoExc
    /\ response = NoResponse

-----------------------------------------------------------------------------
(* Actions                                                                 *)

\* schemas.py lines 21-26: FastAPI validates the body against ReplyRequest (min_length=1)
ValidateRequest ==
    /\ pc = "received"
    /\ IF Len(payload.body) < 1
       THEN /\ pc' = "done"
            /\ response' = ErrorResponse(422, "http_error", "String should have at least 1 character")
       ELSE /\ pc' = "create_reply"
            /\ UNCHANGED response
    /\ UNCHANGED <<environ, settings, payload, state, trace, lookup, searchCalls, llmCalls,
                   backendCalls, error, patches, others>>

\* main.py lines 140-157: create_reply up to the start of the graph
CreateReplyStart ==
    /\ pc = "create_reply"
    /\ IF body_is_blank(payload.body)
       THEN /\ pc' = "done"
            /\ response' = ErrorResponse(400, "validation_error",
                                         "Field 'body' must be a non-empty string.")
            /\ UNCHANGED state
       ELSE /\ pc' = "classify_intent"
            /\ state' = initial_state(payload)
            /\ UNCHANGED response
    /\ UNCHANGED <<environ, settings, payload, trace, lookup, searchCalls, llmCalls,
                   backendCalls, error, patches, others>>

\* graph.py lines 64-79 and the conditional edge, lines 166-175
NodeClassifyIntent ==
    /\ pc = "classify_intent"
    /\ state' = Merge(state, node_classify_intent(state))
    /\ pc' = route_after_classify(state')
    /\ trace' = Append(trace, "classify_intent")
    /\ patches' = Append(patches, PatchEntry("classify_intent", node_classify_intent(state), state))
    /\ UNCHANGED <<environ, settings, payload, lookup, searchCalls, llmCalls, backendCalls,
                   error, response, others>>

\* graph.py lines 82-100 and the edge search -> synthesize, line 176
NodeSearch ==
    /\ pc = "search"
    /\ \E tavilyOutcome \in TavilyOutcomes, ddgOutcome \in DuckDuckGoOutcomes :
         LET r == node_search(state, environ, tavilyOutcome, ddgOutcome)
         IN  /\ searchCalls' = searchCalls \o r.lookup.calls
             /\ lookup' = [called |-> TRUE, ok |-> r.ok, sources |-> r.lookup.sources,
                           backend |-> r.lookup.backend, exc |-> r.exc]
             /\ IF r.ok
                THEN /\ state' = Merge(state, r.patch)
                     /\ pc' = edge_after_search(state')
                     /\ patches' = Append(patches, PatchEntry("search", r.patch, state))
                     /\ UNCHANGED error
                ELSE /\ error' = r.exc
                     /\ pc' = "raised"
                     /\ UNCHANGED <<state, patches>>
    /\ trace' = Append(trace, "search")
    /\ UNCHANGED <<environ, settings, payload, llmCalls, backendCalls, response, others>>

\* graph.py lines 103-152 and the edge synthesize -> END, line 177
NodeSynthesize ==
    /\ pc = "synthesize"
    /\ \E outcome \in LLMOutcomes :
         LET r == node_synthesize(state, environ, outcome)
         IN  /\ llmCalls' = llmCalls \o r.llm
             /\ backendCalls' = backendCalls \o r.backend
             /\ IF r.ok
                THEN /\ state' = Merge(state, r.patch)
                     /\ pc' = edge_after_synthesize(state')
                     /\ patches' = Append(patches, PatchEntry("synthesize", r.patch, state))
                     /\ UNCHANGED error
                ELSE /\ error' = r.exc
                     /\ pc' = "raised"
                     /\ UNCHANGED <<state, patches>>
    /\ trace' = Append(trace, "synthesize")
    /\ UNCHANGED <<environ, settings, payload, lookup, searchCalls, response, others>>

\* main.py lines 158-175: the response built from the final state
CreateReplyRespond ==
    /\ pc = "END"
    /\ response' = reply_response(state, settings)
    /\ pc' = "done"
    /\ UNCHANGED <<environ, settings, payload, state, trace, lookup, searchCalls, llmCalls,
                   backendCalls, error, patches, others>>

\* main.py lines 176-183: an exception of the graph becomes a pipeline error
CreateReplyFail ==
    /\ pc = "raised"
    /\ response' = ErrorResponse(500, "pipeline_error", pipeline_error_message(error))
    /\ pc' = "done"
    /\ UNCHANGED <<environ, settings, payload, state, trace, lookup, searchCalls, llmCalls,
                   backendCalls, error, patches, others>>

Next ==
    \/ ValidateRequest
    \/ CreateReplyStart
    \/ NodeClassifyIntent
    \/ NodeSearch
    \/ NodeSynthesize
    \/ CreateReplyRespond
    \/ CreateReplyFail

Spec == Init /\ [][Next]_vars

-----------------------------------------------------------------------------
(* Vocabulary of the properties                                            *)

Nodes == {"classify_intent", "search", "synthesize"}

Ran(node) == \E i \in 1..Len(trace) : trace[i] = node

\* the request body contains an unsafe marker, whatever its case
BodyHasUnsafeMarker ==
    \E n \in 1..Len(unsafe_markers) : Contains(Lower(payload.body), unsafe_markers[n])

IsUnsafeIntent == Get(state, "intent", "") = "unsafe_request"

StateSources == Get(state, "sources", <<>>)

TavilyConfigured == Truthy(environ["TAVILY_API_KEY"])

OpenAIConfigured == Truthy(environ["OPENAI_API_KEY"])

CallsOf(provider) == SelectSeq(searchCalls, LAMBDA c : c.provider = provider)

\* the sources a provider call yields after deduplication
PrimaryYield(c) == dedupe_sources(tavily_items(c.outcome.results), c.max_results)

SecondaryYield(c) == dedupe_sources(duckduckgo_items(c.outcome.results), c.max_results)

PrimaryFailedOrEmpty(c) ==
    c.provider = "tavily" /\ (c.outcome.raises \/ PrimaryYield(c) = <<>>)

-----------------------------------------------------------------------------
(* Properties                                                              *)

\* C1: the node order is fixed by the routing rule: classify runs first; after
\* classify the next node is synthesize iff intent = unsafe_request, otherwise
\* search; after search the next node is synthesize; nothing runs after synthesize.
C1_NodeOrder ==
    /\ Len(trace) <= 3
    /\ pc = "classify_intent" => trace = <<>>
    /\ Len(trace) >= 1 => trace[1] = "classify_intent"
    /\ Len(trace) = 1 => pc = (IF IsUnsafeIntent THEN "synthesize" ELSE "search")
    /\ Len(trace) >= 2 => trace[2] = (IF IsUnsafeIntent THEN "synthesize" ELSE "search")
    /\ (Len(trace) = 2 /\ trace[2] = "search") => pc \in {"synthesize", "raised", "done"}
    /\ Len(trace) = 3 => (trace[2] = "search" /\ trace[3] = "synthesize")
    /\ \A i \in 1..Len(trace) :
          trace[i] = "synthesize" => (i = Len(trace) /\ pc \notin Nodes)

C1_Witness ==
    /\ pc = "END"
    /\ trace = <<"classify_intent", "search", "synthesize">>

\* C2: for a body with an unsafe marker, from the end of classify onward the intent
\* is unsafe_request, sources is empty, search_backend is "none" and no search
\* provider has been invoked.
C2_UnsafeSkipsSearch ==
    (BodyHasUnsafeMarker /\ Ran("classify_intent")) =>
        /\ IsUnsafeIntent
        /\ "sources" \in DOMAIN state /\ state["sources"] = <<>>
        /\ "search_backend" \in DOMAIN state /\ state["search_backend"] = "none"
        /\ searchCalls = <<>>
        /\ ~lookup.called
        /\ ~Ran("search")

C2_Witness ==
    /\ BodyHasUnsafeMarker
    /\ pc = "done"
    /\ response.status = 200
    /\ response.sources = <<>>

\* C3: for an unsafe request the state after synthesize has the refusal text set by
\* classify and model "none", and the reply generator is never invoked.
C3_RefusalPassedThrough ==
    (BodyHasUnsafeMarker /\ Ran("synthesize")) =>
        /\ pc # "raised"
        /\ state["reply_text"] = RefusalText
        /\ state["model"] = <<"none">>
        /\ llmCalls = <<>>
        /\ backendCalls = <<>>

C3_Witness ==
    /\ BodyHasUnsafeMarker
    /\ pc = "END"
    /\ Ran("synthesize")

\* C4: whenever the primary provider is attempted and raises or yields no source
\* after deduplication, the secondary provider is invoked next, a returned result is
\* the secondary's deduplicated sources under the secondary's identifier, and the
\* primary's exception never reaches the caller.
C4_FallbackToSecondary ==
    \A i \in 1..Len(searchCalls) :
        PrimaryFailedOrEmpty(searchCalls[i]) =>
            /\ i + 1 <= Len(searchCalls)
            /\ searchCalls[i + 1].provider = "duckduckgo"
            /\ lookup.called
            /\ lookup.ok => /\ lookup.backend = "duckduckgo"
                            /\ lookup.sources = SecondaryYield(searchCalls[i + 1])
            /\ lookup.exc # TavilyError
            /\ error # TavilyError

C4_Witness ==
    /\ lookup.called /\ lookup.ok
    /\ Len(searchCalls) = 2
    /\ searchCalls[1].provider = "tavily" /\ searchCalls[1].outcome.raises
    /\ lookup.sources # <<>>

\* C5: on a successful lookup the backend identifier names the provider whose
\* results are returned: the primary's exactly when the credential is configured and
\* the primary yielded a source (the secondary is then not invoked), the secondary's
\* otherwise; without the credential the primary is never invoked.
C5_BackendNamesProvider ==
    /\ ~TavilyConfigured => CallsOf("tavily") = <<>>
    /\ (lookup.called /\ lookup.ok) =>
          LET primaryYielded ==
                  /\ TavilyConfigured
                  /\ \E i \in 1..Len(searchCalls) :
                        /\ searchCalls[i].provider = "tavily"
                        /\ ~searchCalls[i].outcome.raises
                        /\ PrimaryYield(searchCalls[i]) # <<>>
          IN  /\ lookup.backend = "tavily" <=> primaryYielded
              /\ lookup.backend = "tavily" =>
                    /\ CallsOf("duckduckgo") = <<>>
                    /\ lookup.sources = PrimaryYield(searchCalls[1])
              /\ lookup.backend # "tavily" =>
                    /\ lookup.backend = "duckduckgo"
                    /\ Len(CallsOf("duckduckgo")) = 1
                    /\ lookup.sources = SecondaryYield(CallsOf("duckduckgo")[1])

C5_Witness ==
    /\ lookup.called /\ lookup.ok
    /\ lookup.backend = "tavily"
    /\ Len(lookup.sources) >= 2

\* C6: the lookup ends in an error iff the secondary provider was invoked and
\* raised; the error is the wrapped "search unavailable" error, not the provider's
\* exception; a failure of the primary alone does not fail the lookup.
C6_OnlySecondaryFailureIsFatal ==
    lookup.called =>
        LET secondaryRaised ==
                \E i \in 1..Len(searchCalls) :
                    searchCalls[i].provider = "duckduckgo" /\ searchCalls[i].outcome.raises
        IN  /\ ~lookup.ok <=> secondaryRaised
            /\ ~lookup.ok => /\ lookup.exc = SearchUnavailable
                             /\ lookup.exc # DuckDuckGoError
                             /\ error = SearchUnavailable
            /\ lookup.ok => error = NoExc \/ Ran("synthesize")

C6_Witness ==
    /\ lookup.called /\ ~lookup.ok
    /\ Len(searchCalls) = 2
    /\ pc = "done" /\ response.status = 500

\* C7: when synthesize runs on a safe request with no source in the state, the reply
\* is the fixed apology, model is "none" and the reply generator is not invoked.
C7_ApologyWithoutSources ==
    (~BodyHasUnsafeMarker /\ Ran("synthesize") /\ StateSources = <<>>) =>
        /\ pc # "raised"
        /\ state["reply_text"] = ApologyText
        /\ state["model"] = <<"none">>
        /\ llmCalls = <<>>
        /\ backendCalls = <<>>

C7_Witness ==
    /\ ~BodyHasUnsafeMarker
    /\ pc = "END"
    /\ Len(searchCalls) = 2
    /\ StateSources = <<>>

\* C8 as stated: with sources of any length and no generation credential, synthesize
\* returns model "none" and a reply that includes the URL of every source of the
\* state, and the request does not fail.
C8_EveryUrlListed ==
    (Ran("synthesize") /\ StateSources # <<>> /\ ~OpenAIConfigured) =>
        /\ pc # "raised"
        /\ state["model"] = <<"none">>
        /\ \A i \in 1..Len(StateSources) : Contains(state["reply_text"], StateSources[i].url)

\* C8 amended: with sources of any length and no generation credential, synthesize
\* returns model "none" and a reply that includes the URL of each of the first four
\* sources of the state, and the request does not fail.
C8_FirstFourUrlsListed ==
    (Ran("synthesize") /\ StateSources # <<>> /\ ~OpenAIConfigured) =>
        /\ pc # "raised"
        /\ state["model"] = <<"none">>
        /\ \A i \in 1..Min(4, Len(StateSources)) :
              Contains(state["reply_text"], StateSources[i].url)

C8_Witness ==
    /\ pc = "END"
    /\ ~OpenAIConfigured
    /\ Len(StateSources) >= 5

\* C9: whenever synthesize invokes the generator, the list it passes is the first k
\* sources of the state in order, k = min(len(sources), max(max_reply_items, 4)).
C9_GeneratorGetsBoundedPrefix ==
    llmCalls # <<>> =>
        LET bound == Max(settings.max_reply_items, 4)
            k     == Min(Len(StateSources), bound)
        IN  /\ Len(llmCalls) = 1
            /\ llmCalls[1].sources = SubSeq(StateSources, 1, k)
            /\ Len(llmCalls[1].sources) <= bound
            /\ bound >= 4

C9_Witness ==
    /\ llmCalls # <<>>
    /\ settings.max_reply_items < 4
    /\ Len(llmCalls[1].sources) = 4
    /\ Len(StateSources) > 4

\* C10 as stated: for a safe request whose search succeeds with 3 sources, synthesize
\* invokes the generator with a list of length at most min(max_reply_items, 4).
C10_BoundedByMin ==
    (lookup.called /\ lookup.ok /\ Len(lookup.sources) = 3 /\ Ran("synthesize")) =>
        /\ llmCalls # <<>>
        /\ Len(llmCalls[1].sources) <= Min(settings.max_reply_items, 4)

\* C10 amended: for a safe request whose search succeeds with 3 sources, synthesize
\* invokes the generator with a list of length at most max(max_reply_items, 4).
C10_BoundedByMax ==
    (lookup.called /\ lookup.ok /\ Len(lookup.sources) = 3 /\ Ran("synthesize")) =>
        /\ llmCalls # <<>>
        /\ Len(llmCalls[1].sources) <= Max(settings.max_reply_items, 4)

C10_Witness ==
    /\ lookup.called /\ lookup.ok
    /\ Len(lookup.sources) = 3
    /\ Ran("synthesize")
    /\ settings.max_reply_items < 3
    /\ Len(llmCalls) = 1

\* the backend raised, or answered with no text
GeneratorFailed(c) == c.outcome.raises \/ Strip(OrElse(c.outcome.content, <<>>)) = <<>>

\* the exception a failed backend request ends in
GeneratorFailure(c) == IF c.outcome.raises THEN c.outcome.exc ELSE EmptyResponseError

\* C11: when the generator is invoked and fails for a reason other than the missing
\* credential (the backend raises, times out or answers with no text), synthesize
\* substitutes no reply: the failure leaves the orchestrator and the request ends in
\* an error; only the missing credential is turned into a degraded reply.
C11_GeneratorFailureIsFatal ==
    /\ \A i \in 1..Len(backendCalls) :
          GeneratorFailed(backendCalls[i]) =>
              /\ pc \in {"raised", "done"}
              /\ error = GeneratorFailure(backendCalls[i])
              /\ "reply_text" \notin DOMAIN state
              /\ \A j \in 1..Len(patches) : patches[j].node # "synthesize"
              /\ response.status \in {0, 500}
    /\ (Ran("synthesize") /\ llmCalls # <<>> /\ pc \in {"END", "done"} /\ error = NoExc
          /\ state["reply_text"] = degraded_reply(StateSources)) =>
              /\ ~OpenAIConfigured
              /\ backendCalls = <<>>

C11_Witness ==
    /\ Len(backendCalls) = 1
    /\ ~backendCalls[1].outcome.raises
    /\ GeneratorFailed(backendCalls[1])
    /\ pc = "done"
    /\ response.status = 500

-----------------------------------------------------------------------------
(* The functions of the program on their own                               *)

\* the longest list of sources handed to _dedupe_sources
MaxDedupeLen == 3

\* the largest limit handed to _dedupe_sources
MaxLimit == 3

DedupeItems ==
    { SourceItem(<<"Title 1">>, <<"a">>),
      SourceItem(<<"Title 2">>, <<" ", "A", " ">>),
      SourceItem(<<"Title 3">>, <<"b">>),
      SourceItem(<<"Title 4">>, <<" ">>),
      SourceItem(<<"Title 5">>, <<>>) }

DedupeCalls ==
    { [NoCall EXCEPT !.fn = "dedupe", !.sources = s, !.limit = l] :
        s \in UNION {[1..n -> DedupeItems] : n \in 0..MaxDedupeLen}, l \in 0..MaxLimit }

IdleEnviron ==
    [ OPENAI_API_KEY |-> None, OPENAI_MODEL |-> None, TAVILY_API_KEY |-> None,
      SEARCH_MAX_RESULTS |-> None, MAX_REPLY_ITEMS |-> None ]

pipeline == <<environ, settings, payload, pc, state, trace, lookup, searchCalls, llmCalls,
              backendCalls, error, response, patches>>

\* no request is being served
PipelineIdle ==
    /\ settings = get_settings(environ)
    /\ payload = [body |-> <<>>, subject |-> None, sender_email |-> None]
    /\ pc = "idle"
    /\ state = EmptyDict
    /\ trace = <<>>
    /\ lookup = NoLookup
    /\ searchCalls = <<>>
    /\ llmCalls = <<>>
    /\ backendCalls = <<>>
    /\ error = NoExc
    /\ response = NoResponse
    /\ patches = <<>>

\* search.py lines 12-23
ApplyDedupe ==
    /\ fncall.fn = "dedupe" /\ ~fncall.done
    /\ fncall' = [fncall EXCEPT !.done = TRUE,
                                !.out = dedupe_sources(fncall.sources, fncall.limit)]
    /\ UNCHANGED <<pipeline, reqs>>

\* the normalized URL of the deduplication: trimmed and case-folded
NormalizedUrl(s) == Lower(Strip(s.url))

\* sub is a subsequence of seq, in the order of seq
IsSubsequence(sub, seq) ==
    \E f \in [1..Len(sub) -> 1..Len(seq)] :
        /\ \A i \in 1..Len(sub) : seq[f[i]] = sub[i]
        /\ \A i, j \in 1..Len(sub) : i < j => f[i] < f[j]

\* the first entry of seq with the normalized URL of s
FirstOccurrence(seq, s) ==
    seq[CHOOSE i \in 1..Len(seq) :
            /\ NormalizedUrl(seq[i]) = NormalizedUrl(s)
            /\ \A j \in 1..(i - 1) : NormalizedUrl(seq[j]) # NormalizedUrl(s)]

\* the properties of the output of the deduplication other than its length
DedupedWell(in, out) ==
    /\ IsSubsequence(out, in)
    /\ \A i, j \in 1..Len(out) : i # j => NormalizedUrl(out[i]) # NormalizedUrl(out[j])
    /\ \A i \in 1..Len(out) : NormalizedUrl(out[i]) # <<>>
    /\ \A i \in 1..Len(out) : out[i] = FirstOccurrence(in, out[i])

\* C12: for every list of sources and every limit >= 0 the output of the
\* deduplication is a subsequence of the input in its order, has no two entries with
\* the same normalized URL and none with an empty one, keeps the first occurrence of
\* each normalized URL, and is at most limit long.
C12_DedupeWithinLimit ==
    (fncall.fn = "dedupe" /\ fncall.done /\ fncall.limit >= 0) =>
        /\ DedupedWell(fncall.sources, fncall.out)
        /\ Len(fncall.out) <= fncall.limit

\* the most words of a body handed to the classifier
MaxBodyWords == 2

Words ==
    { <<"G", "a", "r", "b", "a">>,
      <<"s", "t", "a", "r", "t", "u", "p">>,
      <<"C", "r", "i", "c", "k", "e", "t">>,
      <<"t", "r", "a", "d", "e">>,
      <<"f", "a", "i", "r">>,
      <<"b", "u", "y">>,
      <<"d", "r", "u", "g", "s">>,
      <<"s", "K", "i", "l", "l">>,
      <<"h", "e", "l", "l", "o">>,
      <<"p", "a", "r", "t", "y">> }

ClassifyBodies == {Join(<<" ">>, ws) : ws \in UNION {[1..n -> Words] : n \in 0..MaxBodyWords}}

ClassifyCalls == { [NoCall EXCEPT !.fn = "classify", !.text = b] : b \in ClassifyBodies }

\* graph.py lines 64-79
ApplyClassify ==
    /\ fncall.fn = "classify" /\ ~fncall.done
    /\ fncall' = [fncall EXCEPT !.done = TRUE,
                                !.out = node_classify_intent([body |-> fncall.text])]
    /\ UNCHANGED <<pipeline, reqs>>

RespondResults ==
    { rt @@ md @@ sr @@ [body |-> <<"h", "i">>] :
        rt \in { EmptyDict, [reply_text |-> <<>>], [reply_text |-> <<" ", "\n">>],
                 [reply_text |-> <<" ", "Hello", "\n">>] },
        md \in { EmptyDict, [model |-> <<>>], [model |-> <<"gpt-4o-mini">>] },
        sr \in { EmptyDict, [sources |-> <<>>],
                 [sources |-> <<SourceItem(<<"Title 1">>, <<"a">>),
                                SourceItem(<<"Title 3">>, <<"b">>)>>] } }

RespondCalls ==
    { [NoCall EXCEPT !.fn = "respond", !.result = r, !.startup_items = n] :
        r \in RespondResults, n \in {0 - 1, 1, 4} }

\* main.py lines 160-175
ApplyRespond ==
    /\ fncall.fn = "respond" /\ ~fncall.done
    /\ fncall' = [fncall EXCEPT !.done = TRUE,
                    !.out = reply_response(fncall.result,
                                           [max_reply_items |-> fncall.startup_items])]
    /\ UNCHANGED <<pipeline, reqs>>

InitFunctions ==
    /\ environ = IdleEnviron
    /\ PipelineIdle
    /\ reqs = NoRequests
    /\ fncall \in DedupeCalls \cup ClassifyCalls \cup RespondCalls

NextFunctions ==
    \/ ApplyDedupe
    \/ ApplyClassify
    \/ ApplyRespond

SpecFunctions == InitFunctions /\ [][NextFunctions]_vars

\* C15: every successful response of the boundary has a non-empty reply text: when
\* the final state of the core has none (missing, empty or blank), the boundary puts
\* the fixed "try again" message in its place.
C15_ReplyNeverEmpty ==
    (fncall.fn = "respond" /\ fncall.done) =>
        LET given == Strip(Get(fncall.result, "reply_text", <<>>))
        IN  /\ fncall.out.status = 200
            /\ fncall.out.reply_text # <<>>
            /\ Strip(fncall.out.reply_text) # <<>>
            /\ given = <<>> => fncall.out.reply_text = TryAgainText
            /\ given # <<>> => fncall.out.reply_text = given

C15_Witness ==
    /\ fncall.fn = "respond" /\ fncall.done
    /\ "reply_text" \in DOMAIN fncall.result
    /\ fncall.result["reply_text"] = <<" ", "\n">>
    /\ fncall.out.reply_text = TryAgainText

-----------------------------------------------------------------------------
(* Properties of the boundary and of the fallbacks                         *)

\* C14: a request whose body is empty or blank is rejected by the boundary with a
\* validation error and never reaches the orchestration: no node runs and neither a
\* search provider nor the generator is invoked for it.
C14_BlankBodyRejected ==
    Strip(payload.body) = <<>> =>
        /\ pc \in {"received", "create_reply", "done"}
        /\ trace = <<>>
        /\ state = EmptyDict
        /\ patches = <<>>
        /\ searchCalls = <<>> /\ ~lookup.called
        /\ llmCalls = <<>> /\ backendCalls = <<>>
        /\ pc = "done" =>
              IF payload.body = <<>>
              THEN response.status = 422
              ELSE response.status = 400 /\ response.error = "validation_error"

C14_Witness ==
    /\ payload.body = <<" ", " ">>
    /\ pc = "done"
    /\ response.status = 400

\* C16: every exception the core raises during an invocation is caught by the
\* boundary and reported as a pipeline failure with the exception's message, or with
\* the fixed default when that message is empty; no successful response is produced.
C16_CoreExceptionReported ==
    /\ (lookup.called /\ ~lookup.ok) => error = lookup.exc
    /\ \A i \in 1..Len(backendCalls) :
          GeneratorFailed(backendCalls[i]) => error = GeneratorFailure(backendCalls[i])
    /\ error # NoExc =>
          /\ pc \in {"raised", "done"}
          /\ response.status \in {0, 500}
          /\ pc = "done" =>
                /\ response.status = 500
                /\ response.error = "pipeline_error"
                /\ response.message # ""
                /\ response.message =
                      (IF error.msg = "" THEN "Reply pipeline failed." ELSE error.msg)
                /\ response.reply_text = <<>>
    /\ response.status = 200 => error = NoExc

C16_Witness ==
    /\ pc = "done"
    /\ error.type = "APIConnectionError"
    /\ error.msg = ""
    /\ response.status = 500
    /\ response.message = "Reply pipeline failed."

\* C17: within a request every fallback is one-shot: the primary provider, the
\* secondary provider and the reply generator are each invoked at most once, and
\* nothing is tried again after a failure.
C17_OneShot ==
    /\ Len(CallsOf("tavily")) <= 1
    /\ Len(CallsOf("duckduckgo")) <= 1
    /\ Len(searchCalls) <= 2
    /\ Len(llmCalls) <= 1
    /\ Len(backendCalls) <= 1
    /\ \A i \in 1..Len(searchCalls) :
          (searchCalls[i].provider = "duckduckgo" /\ searchCalls[i].outcome.raises) =>
              i = Len(searchCalls)
    /\ \A i \in 1..Len(trace), j \in 1..Len(trace) : trace[i] = trace[j] => i = j

C17_Witness ==
    /\ pc = "done"
    /\ Len(searchCalls) = 2
    /\ searchCalls[1].outcome.raises
    /\ searchCalls[2].outcome.raises
    /\ response.status = 500

-----------------------------------------------------------------------------
(* Frame properties of the node patches                                    *)

WritesLookupFields(p) == "sources" \in DOMAIN p.patch \/ "search_backend" \in DOMAIN p.patch

FramePreserved(p) ==
    /\ DOMAIN p.after = DOMAIN p.before \cup DOMAIN p.patch
    /\ \A k \in DOMAIN p.before \ DOMAIN p.patch : p.after[k] = p.before[k]
    /\ \A k \in DOMAIN p.patch : p.after[k] = p.patch[k]

PatchesChained ==
    /\ \A i \in 1..Len(patches) :
          patches[i].before = (IF i = 1 THEN initial_state(payload) ELSE patches[i-1].after)
    /\ patches # <<>> => state = patches[Len(patches)].after

\* C20 as stated: sources and searchBackend are written only by the search node
\* (neither classify nor synthesize has them in its patch), and every field not in a
\* node's patch keeps the value it had before the node ran.
C20_OnlySearchWritesSources ==
    \A i \in 1..Len(patches) :
        /\ patches[i].node # "search" => ~WritesLookupFields(patches[i])
        /\ FramePreserved(patches[i])

\* C20 amended: sources and searchBackend are written by the search node and by the
\* classify node's refusal of an unsafe request, which sets sources to the empty list
\* and searchBackend to "none"; classify writes neither for a safe request and
\* synthesize never writes them; every field not in a node's patch keeps the value
\* it had before that node ran.
C20_SearchOrRefusalWritesSources ==
    /\ \A i \in 1..Len(patches) :
          LET p == patches[i]
          IN  /\ p.node \in {"classify_intent", "search", "synthesize"}
              /\ p.node = "synthesize" => ~WritesLookupFields(p)
              /\ p.node = "search" => {"sources", "search_backend"} \subseteq DOMAIN p.patch
              /\ p.node = "classify_intent" =>
                    IF BodyHasUnsafeMarker
                    THEN /\ p.patch.sources = <<>>
                         /\ p.patch.search_backend = "none"
                    ELSE ~WritesLookupFields(p)
              /\ FramePreserved(p)
    /\ PatchesChained

C20_Witness ==
    /\ pc = "END"
    /\ Len(patches) = 2
    /\ patches[1].node = "classify_intent"
    /\ WritesLookupFields(patches[1])
    /\ patches[2].node = "synthesize"
    /\ state.sources = <<>>
    /\ state.search_backend = "none"
    /\ state.body = patches[1].before.body

-----------------------------------------------------------------------------
(* The process environment changing while a request is in flight           *)

\* the environments the process is started with
EnvStartups ==
    { e \in Environments :
        /\ e["OPENAI_API_KEY"] # Some(<<>>)
        /\ e["TAVILY_API_KEY"] # Some(<<>>)
        /\ e["SEARCH_MAX_RESULTS"] = None
        /\ e["MAX_REPLY_ITEMS"] = None }

\* one variable of os.environ set, unset or replaced
EnvEdits(e) ==
    { [e EXCEPT ![k] = v] :
        k \in {"OPENAI_API_KEY", "TAVILY_API_KEY", "SEARCH_MAX_RESULTS", "MAX_REPLY_ITEMS"},
        v \in {None, Some(<<"sk-key">>), Some(<<"tvly-key">>), Some(<<"2">>)} }
    \cap Environments

\* os.environ is edited after main.py line 14 has taken its snapshot; the snapshot
\* stays, and every later get_settings() call (config.py lines 67-87) reads the edit
EnvChange ==
    /\ pc \in {"received", "create_reply", "classify_intent", "search", "synthesize",
               "END", "raised"}
    /\ get_settings(environ) = settings
    /\ \E e \in EnvEdits(environ) :
         /\ get_settings(e) # settings
         /\ environ' = e
    /\ UNCHANGED <<settings, payload, pc, state, trace, lookup, searchCalls, llmCalls,
                   backendCalls, error, response, patches, others>>

InitEnv == Init /\ environ \in EnvStartups

NextEnv ==
    \/ Next
    \/ EnvChange

SpecEnv == InitEnv /\ [][NextEnv]_vars

\* C18: configuration is read once at process start and is immutable afterwards:
\* when the environment's values change after startup, Source Lookup, the Reply
\* Generator, synthesize and the boundary still use the startup values.
C18_StartupConfigUsed ==
    /\ CallsOf("tavily") # <<>> => Truthy(settings.tavily_api_key)
    /\ (lookup.called /\ CallsOf("tavily") = <<>>) => ~Truthy(settings.tavily_api_key)
    /\ \A i \in 1..Len(searchCalls) :
          searchCalls[i].max_results = settings.search_max_results
    /\ backendCalls # <<>> => Truthy(settings.openai_api_key)
    /\ (llmCalls # <<>> /\ backendCalls = <<>>) => ~Truthy(settings.openai_api_key)
    /\ (pc = "done" /\ response.status = 200) =>
          response.sources = SliceTo(StateSources, settings.max_reply_items)

-----------------------------------------------------------------------------
(* Two requests served concurrently                                        *)

RequestIds == {"r1", "r2"}

ConcEnvirons ==
    { IdleEnviron,
      [IdleEnviron EXCEPT !["OPENAI_API_KEY"] = Some(<<"sk-key">>),
                          !["TAVILY_API_KEY"] = Some(<<"tvly-key">>)] }

ConcBodies ==
    { <<" ", " ">>,
      <<" ", "h", "i", " ">>,
      <<"T", "e", "c", "h", " ", "p", "a", "r", "t", "y">>,
      <<"b", "u", "y", " ", "D", "r", "u", "g", "s">> }

ConcResults ==
    { <<>>, <<RawResult(Some(<<"Garba Night">>), Some(<<"a">>), None)>> }

ConcProviderOutcomes(e) ==
    {[raises |-> TRUE, exc |-> e, results |-> <<>>]}
    \cup {[raises |-> FALSE, exc |-> NoExc, results |-> r] : r \in ConcResults}

ConcLLMOutcomes ==
    { [raises |-> TRUE, exc |-> Exc("APITimeoutError", "Request timed out."), content |-> None],
      [raises |-> FALSE, exc |-> NoExc, content |-> Some(<<"Hello,", "\n", "- Garba Night: a">>)] }

\* a request in flight: its payload, its position, its own GraphState, and what the
\* providers and the backend answer when this request calls them
Requests ==
    [ payload : [body : ConcBodies, subject : {None}, sender_email : {None}],
      pc      : {"create_reply"},
      state   : {EmptyDict},
      error   : {NoExc},
      tavily  : ConcProviderOutcomes(TavilyError),
      ddg     : ConcProviderOutcomes(DuckDuckGoError),
      llm     : ConcLLMOutcomes ]

\* mutation: every invocation works on the state of the first request
graph_state_shared(requests, r) == requests["r1"].state

\* main.py lines 152-157: each create_reply call builds its own state dict and
\* passes it to the graph; the nodes read the state they are given
graph_state(requests, r) == requests[r].state

\* main.py lines 143-157 for request r
ConcStart(r) ==
    /\ reqs[r].pc = "create_reply"
    /\ reqs' = [reqs EXCEPT ![r] =
                  IF body_is_blank(reqs[r].payload.body)
                  THEN [@ EXCEPT !.pc = "rejected"]
                  ELSE [@ EXCEPT !.pc = "classify_intent",
                                 !.state = initial_state(reqs[r].payload)]]
    /\ UNCHANGED <<pipeline, fncall>>

\* graph.py lines 64-79 and 166-175 for request r
ConcClassify(r) ==
    /\ reqs[r].pc = "classify_intent"
    /\ LET s  == graph_state(reqs, r)
           s1 == Merge(s, node_classify_intent(s))
       IN  reqs' = [reqs EXCEPT ![r] = [@ EXCEPT !.state = s1,
                                                 !.pc = route_after_classify(s1)]]
    /\ UNCHANGED <<pipeline, fncall>>

\* graph.py lines 82-100 and 176 for request r
ConcSearch(r) ==
    /\ reqs[r].pc = "search"
    /\ LET s == graph_state(reqs, r)
           n == node_search(s, environ, reqs[r].tavily, reqs[r].ddg)
       IN  reqs' = [reqs EXCEPT ![r] =
                      IF n.ok
                      THEN [@ EXCEPT !.state = Merge(s, n.patch),
                                     !.pc = edge_after_search(Merge(s, n.patch))]
                      ELSE [@ EXCEPT !.error = n.exc, !.pc = "raised"]]
    /\ UNCHANGED <<pipeline, fncall>>

\* graph.py lines 103-152 and 177 for request r
ConcSynthesize(r) ==
    /\ reqs[r].pc = "synthesize"
    /\ LET s == graph_state(reqs, r)
           n == node_synthesize(s, environ, reqs[r].llm)
       IN  reqs' = [reqs EXCEPT ![r] =
                      IF n.ok
                      THEN [@ EXCEPT !.state = Merge(s, n.patch),
                                     !.pc = edge_after_synthesize(Merge(s, n.patch))]
                      ELSE [@ EXCEPT !.error = n.exc, !.pc = "raised"]]
    /\ UNCHANGED <<pipeline, fncall>>

InitConc ==
    /\ environ \in ConcEnvirons
    /\ PipelineIdle
    /\ fncall = NoCall
    /\ reqs \in [RequestIds -> Requests]

NextConc ==
    \/ \E r \in RequestIds : ConcStart(r)
    \/ \E r \in RequestIds : ConcClassify(r)
    \/ \E r \in RequestIds : ConcSearch(r)
    \/ \E r \in RequestIds : ConcSynthesize(r)

SpecConc == InitConc /\ [][NextConc]_vars

Snapshot(pcv, statev, errorv) == [pc |-> pcv, state |-> statev, error |-> errorv]

\* graph.py lines 156-178: the positions and states of one invocation of the
\* compiled graph that runs alone, from create_reply's entry to its last node
SoloRun(request, env, tavilyOutcome, ddgOutcome, llmOutcome) ==
    LET s0    == initial_state(request)
        s1    == Merge(s0, node_classify_intent(s0))
        n2    == node_search(s1, env, tavilyOutcome, ddgOutcome)
        s2    == Merge(s1, n2.patch)
        last(s) ==
            LET n3 == node_synthesize(s, env, llmOutcome)
            IN  IF n3.ok THEN Snapshot("END", Merge(s, n3.patch), NoExc)
                         ELSE Snapshot("raised", s, n3.exc)
        start == <<Snapshot("create_reply", EmptyDict, NoExc)>>
    IN  IF body_is_blank(request.body)
        THEN start \o <<Snapshot("rejected", EmptyDict, NoExc)>>
        ELSE IF route_after_classify(s1) = "synthesize"
        THEN start \o <<Snapshot("classify_intent", s0, NoExc),
                        Snapshot("synthesize", s1, NoExc), last(s1)>>
        ELSE IF ~n2.ok
        THEN start \o <<Snapshot("classify_intent", s0, NoExc),
                        Snapshot("search", s1, NoExc), Snapshot("raised", s1, n2.exc)>>
        ELSE start \o <<Snapshot("classify_intent", s0, NoExc),
                        Snapshot("search", s1, NoExc),
                        Snapshot("synthesize", s2, NoExc), last(s2)>>

SoloOf(r) ==
    SoloRun(reqs[r].payload, environ, reqs[r].tavily, reqs[r].ddg, reqs[r].llm)

Finished(r) == reqs[r].pc \in {"END", "raised", "rejected"}

\* C19: for any interleaving of the node steps of two requests, each request is at
\* every moment in a state of its own solo run, and its final state (intent, sources,
\* searchBackend, replyText, model) and outcome equal those of the run it would make
\* alone with the same provider and generator outcomes.
C19_ConcurrentIndependent ==
    \A r \in DOMAIN reqs :
        LET now == Snapshot(reqs[r].pc, reqs[r].state, reqs[r].error)
            run == SoloOf(r)
        IN  /\ \E i \in 1..Len(run) : run[i] = now
            /\ Finished(r) => now = run[Len(run)]

C19_Witness ==
    /\ DOMAIN reqs = RequestIds
    /\ reqs["r1"].pc = "END" /\ reqs["r2"].pc = "END"
    /\ reqs["r1"].state.intent = "unsafe_request"
    /\ reqs["r2"].state.intent = "cultural_events"
    /\ reqs["r1"].state.sources = <<>>
    /\ reqs["r2"].state.sources # <<>>
    /\ reqs["r2"].state.reply_text # reqs["r1"].state.reply_text

-----------------------------------------------------------------------------
(* Who sets replyText and intent                                           *)

WritersOf(key) == {i \in 1..Len(patches) : key \in DOMAIN patches[i].patch}

CompletedWithoutError == pc = "END" \/ (pc = "done" /\ response.status = 200)

IntentSetOnceByClassify ==
    /\ WritersOf("intent") = {1}
    /\ patches[1].node = "classify_intent"
    /\ \A i \in 1..Len(patches) :
          /\ "intent" \in DOMAIN patches[i].after
          /\ patches[i].after.intent = patches[1].patch.intent
    /\ state.intent = patches[1].patch.intent

\* C21 as stated: in every run that completes without error exactly one node's patch
\* contains replyText, and intent is set exactly once, by classify, and never changed
\* by search or synthesize.
C21_ReplySetByOneNode ==
    CompletedWithoutError =>
        /\ Cardinality(WritersOf("reply_text")) = 1
        /\ IntentSetOnceByClassify

\* C21 amended: in a run that completes without error for a safe request exactly one
\* patch, that of synthesize, contains replyText; for an unsafe request classify's
\* patch sets replyText to the refusal and synthesize's patch contains replyText
\* again with that same value, so the value is decided by exactly one node; intent
\* is set exactly once, by classify, and never changed by search or synthesize.
C21_ReplyDecidedByOneNode ==
    CompletedWithoutError =>
        /\ IntentSetOnceByClassify
        /\ patches[Len(patches)].node = "synthesize"
        /\ IF BodyHasUnsafeMarker
           THEN /\ WritersOf("reply_text") = {1, 2}
                /\ Len(patches) = 2
                /\ patches[1].patch.reply_text = RefusalText
                /\ patches[2].patch.reply_text = patches[1].patch.reply_text
           ELSE WritersOf("reply_text") = {Len(patches)}
        /\ state.reply_text = patches[Len(patches)].patch.reply_text

C21_Witness ==
    /\ pc = "done"
    /\ response.status = 200
    /\ ~BodyHasUnsafeMarker
    /\ Len(patches) = 3
    /\ WritersOf("reply_text") = {3}
    /\ backendCalls # <<>>

-----------------------------------------------------------------------------
(* Termination                                                             *)

Positions ==
    {"received", "create_reply", "classify_intent", "search", "synthesize", "END", "raised",
     "done"}

\* the request moves on to another position
Advance == pc # "done" /\ pc' \in Positions /\ pc' # pc

\* Every step of Next moves pc and some step of Next is enabled at every position
\* but "done" (both are part of C22 below), so weak fairness of Advance is weak
\* fairness of Next: the server runs a started request on, and each external call
\* returns or raises.
InitLive == Init /\ environ \in EnvStartups

SpecLive == InitLive /\ [][Next]_vars /\ WF_pc(Advance)

Started == pc = "classify_intent"

Ended == pc \in {"END", "raised"}

NoNodeRevisited ==
    /\ Len(trace) <= Cardinality(Nodes)
    /\ \A i \in 1..Len(trace), j \in 1..Len(trace) : trace[i] = trace[j] => i = j
    /\ \A i \in 1..Len(trace) : trace[i] \in Nodes

\* C22: every started request eventually ends, given that each external call returns
\* or raises: it reaches the terminal state after synthesize or an error, after at
\* most three node executions, each of classify, search and synthesize executed at
\* most once and no node revisited.
C22_EndsWithinThreeNodes ==
    /\ [](NoNodeRevisited /\ (pc = "END" => trace[Len(trace)] = "synthesize"))
    /\ []((pc # "done") <=> ENABLED Next)
    /\ [][pc' # pc]_vars
    /\ Started ~> Ended

C22_Witness ==
    /\ pc = "END"
    /\ trace = <<"classify_intent", "search", "synthesize">>
    /\ StateSources = <<>>

-----------------------------------------------------------------------------
(* The sources of the response against the sources of the generator        *)

IsPrefix(s, t) == Len(s) <= Len(t) /\ \A i \in 1..Len(s) : s[i] = t[i]

GeneratorInvoked == llmCalls # <<>>

SuccessfulResponse == pc = "done" /\ response.status = 200

\* C23: for every successful response in which the generator was invoked and the
\* configured max_reply_items is at least 0, the sources the boundary returns (the
\* first max_reply_items entries of the state's sources) are a prefix of the list
\* synthesize passed to the generator (the first max(max_reply_items, 4) entries), so
\* the response lists no source the generator was not given.
C23_ResponseSourcesGivenToGenerator ==
    (SuccessfulResponse /\ GeneratorInvoked /\ settings.max_reply_items >= 0) =>
        /\ response.sources = Take(StateSources, settings.max_reply_items)
        /\ llmCalls[1].sources = Take(StateSources, Max(settings.max_reply_items, 4))
        /\ IsPrefix(response.sources, llmCalls[1].sources)
        /\ \A i \in 1..Len(response.sources) :
              \E j \in 1..Len(llmCalls[1].sources) : llmCalls[1].sources[j] = response.sources[i]

C23_Witness ==
    /\ SuccessfulResponse
    /\ GeneratorInvoked
    /\ backendCalls # <<>>
    /\ settings.max_reply_items = 5
    /\ Len(StateSources) > 5
    /\ Len(response.sources) = 5
    /\ Len(llmCalls[1].sources) = 5

====
